---- MODULE Spec2Model ----
(***************************************************************************)
(* The functions of scrape_harris_tax.py:                                  *)
(*   structure_table_entry      (Python, lines 113-160)                    *)
(*   extract_key_value_section  (JavaScript line splitter + Python         *)
(*                               post-processing, lines 212-254)           *)
(*   extract_jurisdiction_containers (JavaScript, lines 256-326)           *)
(*   normalize_table_entries    (Python, lines 162-168)                    *)
(*   try_fill_selectors, try_click_selectors (lines 42-90) and main with   *)
(*   the control flow of the two scrape functions (lines 328-570, 636-711) *)
(*                                                                         *)
(* A string is a sequence of one-character strings.  A Python dict or a    *)
(* JavaScript object is a sequence of [k, v] entries with pairwise         *)
(* distinct keys, in insertion order.  A value of `fields` / `keyValues`   *)
(* is [isList, items]: a scalar string s is [isList |-> FALSE, items |->   *)
(* <<s>>], a list is [isList |-> TRUE, items |-> the list].                *)
(***************************************************************************)
EXTENDS Integers, Sequences, FiniteSets, TLC

VARIABLES pc,             \* which function is running, and where it is
          entry,          \* structure_table_entry: the argument
          i,              \* number of rows of entry.rows the loop has consumed
          headers, fields, records, residual_rows,   \* its locals
          structured,     \* its return value
          innerText,      \* the page functions: container.innerText.split('\n')
          rawLines, keyValues,   \* their locals of that name
          nread,          \* number of rawLines their forEach has consumed
          rows,           \* extract_key_value_section: the local of its page function
          section,        \* its return value
          heading,        \* extract_jurisdiction_containers: the heading element of a container
          domTables,      \* the table elements of the container
          lines,          \* the local of its page function
          result,         \* what it returns for the container
          raw_tables,     \* normalize_table_entries: the argument
          t_idx,          \* number of entries of raw_tables its loop has consumed
          tables,         \* its local, which it returns
          log,            \* main: the events handed to log_event, in order
          files,          \* the output files written
          page_created, context_closed, browser_closed,   \* what main did with the browser
          exc,            \* the exception in flight
          attempts,       \* the selector helper that ran last: the selectors it tried
          ret,            \* its return value: "True", "False", or "none" while it runs
          helper,         \* which of the two it is
          filled, clicked,   \* the locals of the scrape function that is running
          tp_result,      \* what scrape_trueprodigy returned
          hctax_statement \* main's local of that name

tableVars == <<entry, i, headers, fields, records, residual_rows, structured>>

textVars == <<innerText, rawLines, keyValues, nread>>

lineVars == <<rows, section>>

containerVars == <<heading, domTables, lines, result>>

normVars == <<raw_tables, t_idx, tables>>

browserVars == <<page_created, context_closed, browser_closed>>

tryVars == <<attempts, ret, helper>>

localVars == <<filled, clicked>>

outVars == <<tp_result, hctax_statement, files>>

mainVars == <<log, exc, browserVars, tryVars, localVars, outVars>>

\* the state of the functions main does not step through
calleeVars == <<tableVars, textVars, lineVars, containerVars, normVars>>

vars == <<pc, tableVars, textVars, lineVars, containerVars, normVars, mainVars>>

(***************************************************************************)
(* Bounds and input alphabets.                                             *)
(***************************************************************************)
MaxRows == 3

MaxLines == 4

MaxBodyLines == 3

MaxTables == 2

MaxEntries == 2

MaxSelectors == 2

S_blank == <<" ">>
S_b     == <<" ", "b", " ">>
S_ac    == <<"a", ":">>
S_acc   == <<"a", ":", ":">>

NoTitle == <<"<", "a", "b", "s", "e", "n", "t", ">">>   \* the entry has no "title" key

Titles == {NoTitle, S_blank, S_b}

\* cell lists of a row: all blank; one cell; two cells after the blank one is
\* dropped; two equal cells; two cells with another first cell
CellLists == { <<S_blank>>,
               <<S_b>>,
               <<S_acc, S_blank, S_b>>,
               <<S_ac, S_ac>>,
               <<S_b, S_acc>> }

HeaderLists == { <<S_blank>>,
                 <<S_b>>,
                 <<S_acc, S_blank, S_b>>,
                 <<S_ac, S_ac>> }

RawRows == [cells : CellLists, header : {FALSE}] \cup [cells : HeaderLists, header : {TRUE}]

SeqsUpTo(S, n) == UNION {[1..m -> S] : m \in 0..n}

L_A1      == <<"A", ":", " ", "1">>
L_A2      == <<"A", ":", " ", "2">>
L_nocolon == <<"n", "o", " ", "c", "o", "l", "o", "n", " ", "h", "e", "r", "e">>
L_B       == <<"B", ":", "2", ":", "3", "0">>
L_colon   == <<":">>
L_lead    == <<":", "1">>
L_trail   == <<"A", ":">>
L_valueOf == <<" ", "v", "a", "l", "u", "e", "O", "f", " ", ":", "1", " ">>

TextLines == {S_blank, L_A1, L_A2, L_nocolon, L_B, L_colon, L_lead, L_trail, L_valueOf}

InnerTexts == SeqsUpTo(TextLines, MaxLines)

L_A1padded == <<" ", "A", ":", " ", "1", " ">>

\* no element matches 'h1,h2,h3,h4,h5,strong,.title'
NoHeading == [present |-> FALSE, innerText |-> <<>>]

Headings == {NoHeading} \cup [present : {TRUE}, innerText : {S_blank, L_A1padded, L_nocolon}]

BodyTexts == SeqsUpTo({S_blank, L_A1, L_A2, L_nocolon, L_valueOf}, MaxBodyLines)

\* a table element is its tr elements, a tr its th and td cells
Td(t) == [th |-> FALSE, text |-> t]

Th(t) == [th |-> TRUE, text |-> t]

DomTables == { <<>>,
               << <<Td(S_blank)>> >>,
               << <<Th(S_b)>>, <<Td(S_ac), Td(S_blank)>> >> }

TableLists == SeqsUpTo(DomTables, MaxTables)

Entries == [title : Titles, rows : SeqsUpTo(RawRows, MaxRows)]

\* the entries normalize_table_entries is given: no rows, a title alone, rows
\* that are empty or all blank under either header flag, rows of width one and
\* three, and a mix of header and data rows
E_empty == [title |-> NoTitle, rows |-> <<>>]

E_title == [title |-> S_b, rows |-> <<>>]

E_blank == [title |-> S_blank,
            rows |-> << [cells |-> <<>>, header |-> FALSE],
                        [cells |-> <<S_blank, <<>>>>, header |-> TRUE],
                        [cells |-> <<S_blank>>, header |-> FALSE] >>]

E_wide == [title |-> S_b,
           rows |-> << [cells |-> <<S_ac, S_b>>, header |-> TRUE],
                       [cells |-> <<S_ac, S_b, S_acc>>, header |-> FALSE],
                       [cells |-> <<S_ac, <<>>, S_blank>>, header |-> FALSE] >>]

E_mixed == [title |-> NoTitle,
            rows |-> << [cells |-> <<S_ac, S_b>>, header |-> FALSE],
                        [cells |-> <<S_acc, S_b>>, header |-> TRUE],
                        [cells |-> <<S_b, S_ac>>, header |-> FALSE],
                        [cells |-> <<>>, header |-> TRUE] >>]

NormEntries == {E_empty, E_title, E_blank, E_wide, E_mixed}

RawTables == SeqsUpTo(NormEntries, MaxEntries)

(***************************************************************************)
(* Strings.                                                                *)
(***************************************************************************)
Whitespace == {" "}

RECURSIVE LStrip(_)
LStrip(s) == IF s # <<>> /\ Head(s) \in Whitespace THEN LStrip(Tail(s)) ELSE s

RECURSIVE RStripChars(_, _)
RStripChars(s, chars) ==
    IF s # <<>> /\ s[Len(s)] \in chars
    THEN RStripChars(SubSeq(s, 1, Len(s) - 1), chars)
    ELSE s

\* str.strip() of Python, String.prototype.trim() of JavaScript
Strip(s) == LStrip(RStripChars(s, Whitespace))

\* s.indexOf(c): the 0-based index of the first c, -1 when there is none
IndexOf(s, c) ==
    IF \E n \in 1..Len(s) : s[n] = c
    THEN (CHOOSE n \in 1..Len(s) : s[n] = c /\ \A m \in 1..(n - 1) : s[m] # c) - 1
    ELSE -1

\* s.slice(from, to), 0 <= from
Slice(s, from, to) == SubSeq(s, from + 1, IF to < Len(s) THEN to ELSE Len(s))

(***************************************************************************)
(* Dicts.                                                                  *)
(***************************************************************************)
Keys(d) == [n \in 1..Len(d) |-> d[n].k]

HasKey(d, key) == \E n \in 1..Len(d) : d[n].k = key

Get(d, key) == d[CHOOSE n \in 1..Len(d) : d[n].k = key].v

\* d[key] = value
Put(d, key, value) ==
    IF HasKey(d, key)
    THEN [n \in 1..Len(d) |-> IF d[n].k = key THEN [k |-> key, v |-> value] ELSE d[n]]
    ELSE Append(d, [k |-> key, v |-> value])

Scalar(s) == [isList |-> FALSE, items |-> <<s>>]

List(items) == [isList |-> TRUE, items |-> items]

(***************************************************************************)
(* structure_table_entry                                                   *)
(***************************************************************************)
\* line 118: entry.get("title", "").strip()
EntryTitle(e) == IF e.title = NoTitle THEN <<>> ELSE Strip(e.title)

\* line 129: [cell.strip() for cell in row.get("cells", []) if cell and cell.strip()]
RECURSIVE CleanCells(_)
CleanCells(cells) ==
    IF cells = <<>> THEN <<>>
    ELSE IF Head(cells) # <<>> /\ Strip(Head(cells)) # <<>>
         THEN <<Strip(Head(cells))>> \o CleanCells(Tail(cells))
         ELSE CleanCells(Tail(cells))

\* mutant: the first header row wins
SetHeaders_first(hs, cells) == IF hs = <<>> THEN cells ELSE hs

\* line 133: headers = cells
SetHeaders(hs, cells) == cells

\* mutant: zip(cells, headers)
ZipDict_swapped(hs, cells) ==
    [n \in 1..(IF Len(hs) < Len(cells) THEN Len(hs) ELSE Len(cells)) |->
        [k |-> cells[n], v |-> hs[n]]]

\* line 136: dict(zip(headers, cells)); a repeated header keeps its first
\* position and takes the last value
RECURSIVE ZipDict(_, _)
ZipDict(hs, cells) ==
    IF hs = <<>> \/ cells = <<>> THEN <<>>
    ELSE LET n == IF Len(hs) < Len(cells) THEN Len(hs) ELSE Len(cells)
         IN  Put(ZipDict(SubSeq(hs, 1, n - 1), SubSeq(cells, 1, n - 1)), hs[n], cells[n])

\* mutant: the key is the cell as it stands
FieldKey_verbatim(cell) == cell

\* line 139: cells[0].rstrip(":")
FieldKey(cell) == RStripChars(cell, {":"})

\* mutant: fields[key] = value
MergeField_overwrite(fs, key, value) == Put(fs, key, Scalar(value))

\* lines 141-147
MergeField(fs, key, value) ==
    IF HasKey(fs, key)
    THEN IF Get(fs, key).isList
         THEN Put(fs, key, List(Append(Get(fs, key).items, value)))
         ELSE Put(fs, key, List(<<Get(fs, key).items[1], value>>))
    ELSE Put(fs, key, Scalar(value))

\* mutant: the 2-cell test comes before the header-width test
RowBranch_fieldFirst(hs, row) ==
    LET cells == CleanCells(row.cells) IN
    IF cells = <<>> THEN "skip"
    ELSE IF row.header THEN "header"
    ELSE IF Len(cells) = 2 THEN "field"
    ELSE IF hs # <<>> /\ Len(cells) = Len(hs) THEN "record"
    ELSE "residual"

\* mutant: a row of one cell is taken for a key and a value
RowBranch_shortField(hs, row) ==
    LET cells == CleanCells(row.cells) IN
    IF cells = <<>> THEN "skip"
    ELSE IF row.header THEN "header"
    ELSE IF hs # <<>> /\ Len(cells) = Len(hs) THEN "record"
    ELSE IF Len(cells) <= 2 THEN "field"
    ELSE "residual"

\* lines 139-140: cells[n] raises IndexError when the list has no index n
IndexError(cells, n) == n >= Len(cells)

\* lines 130-149: the branch a row takes
RowBranch(hs, row) ==
    LET cells == CleanCells(row.cells) IN
    IF cells = <<>> THEN "skip"
    ELSE IF row.header THEN "header"
    ELSE IF hs # <<>> /\ Len(cells) = Len(hs) THEN "record"
    ELSE IF Len(cells) = 2 THEN "field"
    ELSE "residual"

\* mutant: every member is set, empty or not
BuildStructured_all(title, hs, fs, recs, rest) ==
    [k \in {"title", "headers", "fields", "records", "rows"} |->
        CASE k = "title"   -> title
          [] k = "headers" -> hs
          [] k = "fields"  -> fs
          [] k = "records" -> recs
          [] k = "rows"    -> rest]

\* lines 118-121 and 151-160
BuildStructured(title, hs, fs, recs, rest) ==
       (IF title # <<>> THEN "title"   :> title ELSE <<>>)
    @@ (IF hs    # <<>> THEN "headers" :> hs    ELSE <<>>)
    @@ (IF fs    # <<>> THEN "fields"  :> fs    ELSE <<>>)
    @@ (IF recs  # <<>> THEN "records" :> recs  ELSE <<>>)
    @@ (IF rest  # <<>> THEN "rows"    :> rest  ELSE <<>>)

(***************************************************************************)
(* extract_key_value_section                                               *)
(***************************************************************************)
\* a member every object inherits from Object.prototype: `key in obj` holds
\* for its name and obj[key] is a function.  valueOf stands for them.
ProtoKeys == {<<"v", "a", "l", "u", "e", "O", "f">>}

InheritedMember == <<"function">>

Undefined == [isList |-> FALSE, items |-> <<>>]

\* key in obj
JsIn(obj, key) == HasKey(obj, key) \/ key \in ProtoKeys

\* obj[key]
JsGet(obj, key) ==
    IF HasKey(obj, key) THEN Get(obj, key)
    ELSE IF key \in ProtoKeys THEN Scalar(InheritedMember)
    ELSE Undefined

\* the value is truthy: an array, a function or a non-empty string
Truthy(v) == v.isList \/ (v.items # <<>> /\ v.items[1] # <<>>)

\* lines 220, 273-275: .map(t => t.trim()).filter(Boolean)
TrimmedLines(text) ==
    SelectSeq([n \in 1..Len(text) |-> Strip(text[n])], LAMBDA t : t # <<>>)

\* mutant: a colon that ends the line splits it too
IsKeyValueLine_trailing(line) == IndexOf(line, ":") > 0

\* lines 224-225, 283-284: idx > 0 && idx < line.length - 1
IsKeyValueLine(line) ==
    LET idx == IndexOf(line, ":") IN idx > 0 /\ idx < Len(line) - 1

\* lines 226, 285: line.slice(0, idx).trim()
LineKey(line) == Strip(Slice(line, 0, IndexOf(line, ":")))

\* lines 227, 286: line.slice(idx + 1).trim()
LineValue(line) == Strip(Slice(line, IndexOf(line, ":") + 1, Len(line)))

\* lines 228-237
MergeKeyValue(kv, key, value) ==
    IF JsIn(kv, key)
    THEN LET existing == JsGet(kv, key)
         IN  IF existing.isList
             THEN Put(kv, key, List(Append(existing.items, value)))
             ELSE Put(kv, key, List(<<existing.items[1], value>>))
    ELSE Put(kv, key, Scalar(value))

\* lines 223-241: the forEach of the line splitter, run over any list of
\* lines: the keyValues it ends with
RECURSIVE SplitterKeyValues(_)
SplitterKeyValues(ls) ==
    IF ls = <<>> THEN <<>>
    ELSE LET before == SplitterKeyValues(SubSeq(ls, 1, Len(ls) - 1))
             line   == ls[Len(ls)]
         IN  IF IsKeyValueLine(line)
             THEN MergeKeyValue(before, LineKey(line), LineValue(line))
             ELSE before

\* lines 223-241: the rows it ends with
SplitterRows(ls) == SelectSeq(ls, LAMBDA line : ~IsKeyValueLine(line))

\* mutant: empty members are returned too
BuildSection_keepEmpty(kv, rs, ls) ==
    ("key_values" :> kv) @@ ("rows" :> rs) @@ ("lines" :> ls)

\* lines 242 and 248-254: {key_values, rows, lines} less the empty members
BuildSection(kv, rs, ls) ==
       (IF kv # <<>> THEN "key_values" :> kv ELSE <<>>)
    @@ (IF rs # <<>> THEN "rows"       :> rs ELSE <<>>)
    @@ (IF ls # <<>> THEN "lines"      :> ls ELSE <<>>)

(***************************************************************************)
(* extract_jurisdiction_containers, for one .custom-container              *)
(***************************************************************************)
\* lines 267-271
InitialResult(h) == IF h.present THEN "label" :> Strip(h.innerText) ELSE <<>>

\* mutant: the line is compared with the untrimmed heading text
IsHeadingLine_untrimmed(h, line) == h.present /\ line = h.innerText

\* line 280: heading && line === heading.innerText.trim()
IsHeadingLine(h, line) == h.present /\ line = Strip(h.innerText)

\* mutant: only the keys the object holds itself count as present
MergeContainerField_ownOnly(kv, key, value) ==
    IF HasKey(kv, key)
    THEN IF Get(kv, key).isList
         THEN Put(kv, key, List(Append(Get(kv, key).items, value)))
         ELSE Put(kv, key, List(<<Get(kv, key).items[1], value>>))
    ELSE Put(kv, key, Scalar(value))

\* lines 287-295
MergeContainerField(kv, key, value) ==
    IF Truthy(JsGet(kv, key))
    THEN IF JsGet(kv, key).isList
         THEN Put(kv, key, List(Append(JsGet(kv, key).items, value)))
         ELSE Put(kv, key, List(<<JsGet(kv, key).items[1], value>>))
    ELSE Put(kv, key, Scalar(value))

RECURSIVE Flatten(_)
Flatten(ss) == IF ss = <<>> THEN <<>> ELSE Head(ss) \o Flatten(Tail(ss))

\* line 309: the trimmed text of every th of the table
TableHeaders(t) ==
    LET ths == SelectSeq(Flatten(t), LAMBDA c : c.th)
    IN  [n \in 1..Len(ths) |-> Strip(ths[n].text)]

\* lines 310-313: per tr the non-empty trimmed cells; the empty rows dropped
TableRows(t) ==
    SelectSeq([n \in 1..Len(t) |->
                  SelectSeq([m \in 1..Len(t[n]) |-> Strip(t[n][m].text)], LAMBDA c : c # <<>>)],
              LAMBDA r : r # <<>>)

\* lines 308-315
ContainerTables(ts) ==
    SelectSeq([n \in 1..Len(ts) |-> [headers |-> TableHeaders(ts[n]), rows |-> TableRows(ts[n])]],
              LAMBDA t : t.rows # <<>>)

\* lines 301-321
FinishResult(res, kv, ls, ts) ==
       res
    @@ (IF kv # <<>> THEN "fields" :> kv ELSE <<>>)
    @@ (IF ls # <<>> THEN "lines"  :> ls ELSE <<>>)
    @@ (IF ts # <<>> THEN "tables" :> ts ELSE <<>>)

(***************************************************************************)
(* main, the two scrape functions it calls, and the selector helpers       *)
(* try_fill_selectors and try_click_selectors.  What the page does with a  *)
(* selector is drawn when the selector is attempted.  A selector list is   *)
(* 1..MaxSelectors, a selector its position in the list.  Writes to the    *)
(* output files, close() and the write of a log line are taken to succeed. *)
(***************************************************************************)
NoException == "none"

\* an exception of Playwright or of the page, other than the RuntimeErrors below
PlaywrightError == "PlaywrightError"

Msg_NoInput   == "Unable to locate account search input on hctax.net"

Msg_NoLink    == "Account link not found after search"

Msg_NoHeading == "Could not locate heading"

Msg_TpNotFound  == "Account not found in TrueProdigy search results"

Msg_TpNoSummary == "Property summary container not found after navigating to detail page"

\* lines 24-32: log_event appends one line to the log file
log_event(l, message, level) == Append(l, [level |-> level, message |-> message])

\* lines 34-35
log_error(l, message) == log_event(l, message, "ERROR")

\* what the page does with one selector, lines 45-67 and 71-89:
\*   ok                 the locator is visible and enabled, click/fill pass
\*   timeout            PlaywrightTimeout
\*   disabled           is_disabled() holds
\*   no_locator_ok      AttributeError; query_selector finds it, page.fill/click passes
\*   no_locator_absent  AttributeError; query_selector finds nothing
\*   no_locator_error   AttributeError; the fallback raises
\*   error              any other exception
Outcomes == {"ok", "timeout", "disabled", "no_locator_ok", "no_locator_absent",
             "no_locator_error", "error"}

\* mutant: a disabled control is filled or clicked all the same
AttemptReturns_disabledOk(outcome) == outcome \in {"ok", "no_locator_ok", "disabled"}

\* lines 45-67, 71-89: the attempt ends in `return True` (else the loop goes on)
AttemptReturns(outcome) == outcome \in {"ok", "no_locator_ok"}

\* lines 45, 71: for sel in selectors
NextSelector(done) == Len(done) + 1

\* where the caller of a helper resumes
Returned(at) ==
    CASE at = "tp_fill"  -> "tp_filled"
      [] at = "tp_click" -> "tp_clicked"
      [] at = "h_fill"   -> "h_filled"
      [] at = "h_click"  -> "h_clicked"

\* mutant: main has no handler around scrape_hctax_statement
OnHctaxRaise_unhandled == "m_close"

\* lines 675-677: an exception of scrape_hctax_statement reaches the handler
OnHctaxRaise == "m_h_except"

TextIdle ==
    /\ innerText = <<>>
    /\ rawLines = <<>>
    /\ keyValues = <<>>
    /\ nread = 0

LinesIdle ==
    /\ rows = <<>>
    /\ section = <<>>

NormIdle ==
    /\ raw_tables = <<>>
    /\ t_idx = 0
    /\ tables = <<>>

ContainerIdle ==
    /\ heading = NoHeading
    /\ domTables = <<>>
    /\ lines = <<>>
    /\ result = <<>>

TableIdle ==
    /\ entry = [title |-> NoTitle, rows |-> <<>>]
    /\ i = 0
    /\ headers = <<>>
    /\ fields = <<>>
    /\ records = <<>>
    /\ residual_rows = <<>>
    /\ structured = <<>>

MainIdle ==
    /\ log = <<>>
    /\ files = {}
    /\ page_created = FALSE
    /\ context_closed = FALSE
    /\ browser_closed = FALSE
    /\ exc = NoException
    /\ attempts = <<>>
    /\ ret = "none"
    /\ helper = "none"
    /\ filled = FALSE
    /\ clicked = FALSE
    /\ tp_result = <<>>
    /\ hctax_statement = <<>>

Init ==
    /\ pc = "idle"
    /\ TableIdle
    /\ TextIdle
    /\ LinesIdle
    /\ ContainerIdle
    /\ NormIdle
    /\ MainIdle

\* lines 113-126: the function is entered with its argument
ste_enter(e) ==
    /\ entry' = e
    /\ pc' = "ste_loop"
    /\ i' = 0
    /\ headers' = <<>>        \* None
    /\ fields' = <<>>
    /\ records' = <<>>
    /\ residual_rows' = <<>>
    /\ structured' = <<>>
    /\ UNCHANGED <<textVars, lineVars, containerVars, normVars, mainVars>>

\* structure_table_entry called on its own
ste_call ==
    /\ pc = "idle"
    /\ \E e \in Entries : ste_enter(e)

Row == entry.rows[i + 1]

InLoop(branch) ==
    /\ pc = "ste_loop"
    /\ i < Len(entry.rows)
    /\ RowBranch(headers, Row) = branch
    /\ i' = i + 1
    /\ UNCHANGED <<entry, structured>>
    /\ UNCHANGED <<textVars, lineVars, containerVars, normVars, mainVars>>

\* lines 130-131
ste_skip ==
    /\ InLoop("skip")
    /\ UNCHANGED <<pc, headers, fields, records, residual_rows>>

\* lines 132-134
ste_header ==
    /\ InLoop("header")
    /\ headers' = SetHeaders(headers, CleanCells(Row.cells))
    /\ UNCHANGED <<pc, fields, records, residual_rows>>

\* lines 135-137
ste_record ==
    /\ InLoop("record")
    /\ records' = Append(records, ZipDict(headers, CleanCells(Row.cells)))
    /\ UNCHANGED <<pc, headers, fields, residual_rows>>

\* lines 138-148; an exception leaves the function (and its caller, which has
\* no handler) at once
ste_field ==
    /\ InLoop("field")
    /\ LET cells == CleanCells(Row.cells)
       IN  IF IndexError(cells, 0) \/ IndexError(cells, 1)
           THEN /\ pc' = "ste_error"
                /\ UNCHANGED fields
           ELSE /\ fields' = MergeField(fields, FieldKey(cells[1]), cells[2])
                /\ UNCHANGED pc
    /\ UNCHANGED <<headers, records, residual_rows>>

\* line 149
ste_residual ==
    /\ InLoop("residual")
    /\ residual_rows' = Append(residual_rows, CleanCells(Row.cells))
    /\ UNCHANGED <<pc, headers, fields, records>>

\* lines 151-160
ste_return ==
    /\ pc = "ste_loop"
    /\ i = Len(entry.rows)
    /\ structured' = BuildStructured(EntryTitle(entry), headers, fields, records, residual_rows)
    /\ pc' = "ste_done"
    /\ UNCHANGED <<entry, i, headers, fields, records, residual_rows>>
    /\ UNCHANGED <<textVars, lineVars, containerVars, normVars, mainVars>>

\* lines 162-163: the call, with its argument
nte_call ==
    /\ pc = "idle"
    /\ \E ts \in RawTables : raw_tables' = ts
    /\ t_idx' = 0
    /\ tables' = <<>>
    /\ pc' = "nte_loop"
    /\ UNCHANGED <<tableVars, textVars, lineVars, containerVars, mainVars>>

\* lines 164-165: the next entry is handed to structure_table_entry
nte_entry ==
    /\ pc = "nte_loop"
    /\ t_idx < Len(raw_tables)
    /\ ste_enter(raw_tables[t_idx + 1])

\* lines 165-167: structure_table_entry has returned
nte_append ==
    /\ pc = "ste_done"
    /\ t_idx < Len(raw_tables)
    /\ tables' = IF structured # <<>> THEN Append(tables, structured) ELSE tables
    /\ t_idx' = t_idx + 1
    /\ pc' = "nte_loop"
    /\ UNCHANGED <<raw_tables, tableVars, textVars, lineVars, containerVars, mainVars>>

\* line 168
nte_return ==
    /\ pc = "nte_loop"
    /\ t_idx = Len(raw_tables)
    /\ pc' = "nte_done"
    /\ UNCHANGED <<normVars, tableVars, textVars, lineVars, containerVars, mainVars>>

\* lines 216-222: the page function is entered and finds the container
kv_call ==
    /\ pc = "idle"
    /\ \E text \in InnerTexts :
          /\ innerText' = text
          /\ rawLines' = TrimmedLines(text)
    /\ keyValues' = <<>>
    /\ rows' = <<>>
    /\ nread' = 0
    /\ section' = <<>>
    /\ pc' = "kv_loop"
    /\ UNCHANGED <<tableVars, normVars, mainVars, containerVars>>

\* lines 218-219 and 246-247: no element matches the selector; None is returned
kv_no_container ==
    /\ pc = "idle"
    /\ pc' = "kv_none"
    /\ UNCHANGED <<tableVars, normVars, mainVars, textVars, lineVars, containerVars>>

Line == rawLines[nread + 1]

\* lines 223-237
kv_keyvalue ==
    /\ pc = "kv_loop"
    /\ nread < Len(rawLines)
    /\ IsKeyValueLine(Line)
    /\ keyValues' = MergeKeyValue(keyValues, LineKey(Line), LineValue(Line))
    /\ nread' = nread + 1
    /\ UNCHANGED <<pc, innerText, rawLines, rows, section, tableVars, normVars, mainVars, containerVars>>

\* lines 238-240
kv_row ==
    /\ pc = "kv_loop"
    /\ nread < Len(rawLines)
    /\ ~IsKeyValueLine(Line)
    /\ rows' = Append(rows, Line)
    /\ nread' = nread + 1
    /\ UNCHANGED <<pc, innerText, rawLines, keyValues, section, tableVars, normVars, mainVars, containerVars>>

\* lines 242-254
kv_return ==
    /\ pc = "kv_loop"
    /\ nread = Len(rawLines)
    /\ section' = BuildSection(keyValues, rows, rawLines)
    /\ pc' = "kv_done"
    /\ UNCHANGED <<textVars, rows, tableVars, normVars, mainVars, containerVars>>

\* lines 262-278: the page function reaches a container
jc_call ==
    /\ pc = "idle"
    /\ \E h \in Headings, text \in BodyTexts, ts \in TableLists :
          /\ heading' = h
          /\ innerText' = text
          /\ domTables' = ts
          /\ result' = InitialResult(h)
          /\ rawLines' = TrimmedLines(text)
    /\ keyValues' = <<>>
    /\ lines' = <<>>
    /\ nread' = 0
    /\ pc' = "jc_loop"
    /\ UNCHANGED <<tableVars, normVars, mainVars, lineVars>>

\* lines 263-264 and 326: no element matches the selector; None is returned
jc_no_root ==
    /\ pc = "idle"
    /\ pc' = "jc_none"
    /\ UNCHANGED <<tableVars, normVars, mainVars, textVars, lineVars, containerVars>>

InContainerLoop ==
    /\ pc = "jc_loop"
    /\ nread < Len(rawLines)
    /\ nread' = nread + 1
    /\ UNCHANGED <<pc, innerText, rawLines, heading, domTables, result, tableVars, normVars, mainVars, lineVars>>

\* lines 280-282
jc_heading_line ==
    /\ InContainerLoop
    /\ IsHeadingLine(heading, Line)
    /\ UNCHANGED <<keyValues, lines>>

\* lines 283-295
jc_keyvalue ==
    /\ InContainerLoop
    /\ ~IsHeadingLine(heading, Line)
    /\ IsKeyValueLine(Line)
    /\ keyValues' = MergeContainerField(keyValues, LineKey(Line), LineValue(Line))
    /\ UNCHANGED lines

\* lines 296-298
jc_line ==
    /\ InContainerLoop
    /\ ~IsHeadingLine(heading, Line)
    /\ ~IsKeyValueLine(Line)
    /\ lines' = Append(lines, Line)
    /\ UNCHANGED keyValues

\* lines 301-321
jc_return ==
    /\ pc = "jc_loop"
    /\ nread = Len(rawLines)
    /\ result' = FinishResult(result, keyValues, lines, ContainerTables(domTables))
    /\ pc' = "jc_done"
    /\ UNCHANGED <<textVars, heading, domTables, lines, tableVars, normVars, mainVars, lineVars>>

\* lines 636-645
main_start ==
    /\ pc = "idle"
    /\ log' = log_event(log, "Run start", "INFO")
    /\ pc' = "m_launch"
    /\ UNCHANGED <<browserVars, tryVars, localVars, outVars, exc, calleeVars>>

\* lines 646-650
main_launch ==
    /\ pc = "m_launch"
    /\ page_created' = TRUE
    /\ pc' = "m_goto"
    /\ UNCHANGED <<context_closed, browser_closed, tryVars, localVars, outVars, log, exc, calleeVars>>

\* lines 647-650 raise: no page is created; the outer handler is next
main_launch_raise ==
    /\ pc = "m_launch"
    /\ exc' = PlaywrightError
    /\ pc' = "m_except"
    /\ UNCHANGED <<browserVars, tryVars, localVars, outVars, log, calleeVars>>

\* lines 652-665: the page opens and scrape_trueprodigy is called
main_goto ==
    /\ pc = "m_goto"
    /\ pc' = "tp_start"
    /\ UNCHANGED <<mainVars, calleeVars>>

\* line 657 raises: the inner finally is next
main_goto_raise ==
    /\ pc = "m_goto"
    /\ exc' = PlaywrightError
    /\ pc' = "m_close"
    /\ UNCHANGED <<browserVars, tryVars, localVars, outVars, log, calleeVars>>

\* a helper is entered
CallHelper(to, name) ==
    /\ pc' = to
    /\ helper' = name
    /\ attempts' = <<>>
    /\ ret' = "none"
    /\ UNCHANGED <<browserVars, localVars, outVars, log, exc, calleeVars>>

\* one pass of the loop of a helper that ends in `return True`
TrySucceed(at) ==
    /\ pc \in at
    /\ Len(attempts) < MaxSelectors
    /\ \E o \in Outcomes :
          /\ AttemptReturns(o)
          /\ attempts' = Append(attempts, [sel |-> NextSelector(attempts), outcome |-> o])
    /\ ret' = "True"
    /\ pc' = Returned(pc)
    /\ UNCHANGED <<helper, browserVars, localVars, outVars, log, exc, calleeVars>>

\* one pass that goes on to the next selector
TryContinue(at) ==
    /\ pc \in at
    /\ Len(attempts) < MaxSelectors
    /\ \E o \in Outcomes :
          /\ ~AttemptReturns(o)
          /\ attempts' = Append(attempts, [sel |-> NextSelector(attempts), outcome |-> o])
    /\ UNCHANGED <<pc, ret, helper, browserVars, localVars, outVars, log, exc, calleeVars>>

\* the list is exhausted: return False
TryReturnFalse(at) ==
    /\ pc \in at
    /\ Len(attempts) = MaxSelectors
    /\ ret' = "False"
    /\ pc' = Returned(pc)
    /\ UNCHANGED <<attempts, helper, browserVars, localVars, outVars, log, exc, calleeVars>>

\* lines 42-68
tfs_succeed ==
    /\ helper = "fill"
    /\ TrySucceed({"tp_fill", "h_fill"})

tfs_continue ==
    /\ helper = "fill"
    /\ TryContinue({"tp_fill", "h_fill"})

tfs_return_false ==
    /\ helper = "fill"
    /\ TryReturnFalse({"tp_fill", "h_fill"})

\* lines 70-90
tcs_succeed ==
    /\ helper = "click"
    /\ TrySucceed({"tp_click", "h_click"})

tcs_continue ==
    /\ helper = "click"
    /\ TryContinue({"tp_click", "h_click"})

tcs_return_false ==
    /\ helper = "click"
    /\ TryReturnFalse({"tp_click", "h_click"})

\* lines 470-477
tp_call_fill ==
    /\ pc = "tp_start"
    /\ CallHelper("tp_fill", "fill")

\* lines 477-478: filled
tp_filled ==
    /\ pc = "tp_filled"
    /\ ret = "True"
    /\ filled' = TRUE
    /\ pc' = "tp_search"
    /\ UNCHANGED <<clicked, browserVars, tryVars, outVars, log, exc, calleeVars>>

\* lines 478-493: not filled; the first visible text input, if the page has
\* one that takes the value, is filled; nothing is logged or raised
tp_fill_fallback ==
    /\ pc = "tp_filled"
    /\ ret = "False"
    /\ \E visible \in BOOLEAN : filled' = visible
    /\ pc' = "tp_search"
    /\ UNCHANGED <<clicked, browserVars, tryVars, outVars, log, exc, calleeVars>>

\* lines 495-503
tp_call_click ==
    /\ pc = "tp_search"
    /\ CallHelper("tp_click", "click")

\* lines 503-514: Enter is pressed if nothing was clicked and the input is filled
tp_clicked ==
    /\ pc = "tp_clicked"
    /\ clicked' = (ret = "True")
    /\ pc' = "tp_find"
    /\ UNCHANGED <<filled, browserVars, tryVars, outVars, log, exc, calleeVars>>

\* lines 516 and 521-524: find_and_click_account returns True
tp_found ==
    /\ pc = "tp_find"
    /\ pc' = "tp_summary"
    /\ UNCHANGED <<mainVars, calleeVars>>

\* lines 516-519: it returns False
tp_not_found ==
    /\ pc = "tp_find"
    /\ log' = log_error(log, Msg_TpNotFound)
    /\ tp_result' = ("error" :> Msg_TpNotFound)
    /\ pc' = "m_tp_write"
    /\ UNCHANGED <<hctax_statement, files, browserVars, tryVars, localVars, exc, calleeVars>>

\* lines 526-570: the summary container is there; the result is built
tp_return ==
    /\ pc = "tp_summary"
    /\ tp_result' = ("account" :> "ACCOUNT")
    /\ pc' = "m_tp_write"
    /\ UNCHANGED <<hctax_statement, files, browserVars, tryVars, localVars, log, exc, calleeVars>>

\* lines 531-535
tp_no_summary ==
    /\ pc = "tp_summary"
    /\ log' = log_error(log, Msg_TpNoSummary)
    /\ tp_result' = ("error" :> Msg_TpNoSummary)
    /\ pc' = "m_tp_write"
    /\ UNCHANGED <<hctax_statement, files, browserVars, tryVars, localVars, exc, calleeVars>>

\* lines 508-570: a page call outside every try raises (page.title(),
\* page.evaluate, ...); the finally of line 668 is next
tp_raise ==
    /\ pc \in {"tp_find", "tp_summary"}
    /\ exc' = PlaywrightError
    /\ pc' = "m_tp_finally"
    /\ UNCHANGED <<browserVars, tryVars, localVars, outVars, log, calleeVars>>

\* lines 666-667
main_tp_write ==
    /\ pc = "m_tp_write"
    /\ files' = files \cup {"out_tp"}
    /\ pc' = "m_tp_finally"
    /\ UNCHANGED <<tp_result, hctax_statement, browserVars, tryVars, localVars, log, exc, calleeVars>>

\* lines 668-676: the finally; then scrape_hctax_statement is called, or the
\* exception goes on to the inner finally of line 686
main_tp_finally ==
    /\ pc = "m_tp_finally"
    /\ log' = log_event(log, "TrueProdigy scrape duration", "INFO")
    /\ pc' = IF exc = NoException THEN "h_goto" ELSE "m_close"
    /\ UNCHANGED <<browserVars, tryVars, localVars, outVars, exc, calleeVars>>

\* lines 333-335
h_goto ==
    /\ pc = "h_goto"
    /\ pc' = "h_start"
    /\ UNCHANGED <<mainVars, calleeVars>>

\* lines 335-440: a page call outside every try raises
h_raise ==
    /\ pc \in {"h_goto", "h_link", "h_heading"}
    /\ exc' = PlaywrightError
    /\ pc' = OnHctaxRaise
    /\ UNCHANGED <<browserVars, tryVars, localVars, outVars, log, calleeVars>>

\* lines 337-346
h_call_fill ==
    /\ pc = "h_start"
    /\ CallHelper("h_fill", "fill")

\* line 347: filled
h_filled ==
    /\ pc = "h_filled"
    /\ ret = "True"
    /\ filled' = TRUE
    /\ pc' = "h_search"
    /\ UNCHANGED <<clicked, browserVars, tryVars, outVars, log, exc, calleeVars>>

\* raise_runtime_error, lines 37-41
RaiseRuntimeError(message) ==
    /\ log' = log_error(log, message)
    /\ exc' = message
    /\ pc' = OnHctaxRaise

\* lines 347-348: not filled
h_fill_raise ==
    /\ pc = "h_filled"
    /\ ret = "False"
    /\ filled' = FALSE
    /\ RaiseRuntimeError(Msg_NoInput)
    /\ UNCHANGED <<clicked, browserVars, tryVars, outVars, calleeVars>>

\* lines 350-357
h_call_click ==
    /\ pc = "h_search"
    /\ CallHelper("h_click", "click")

\* lines 358-360: Enter is pressed if nothing was clicked
h_clicked ==
    /\ pc = "h_clicked"
    /\ clicked' = (ret = "True")
    /\ pc' = "h_link"
    /\ UNCHANGED <<filled, browserVars, tryVars, outVars, log, exc, calleeVars>>

\* lines 362-373
h_link ==
    /\ pc = "h_link"
    /\ pc' = "h_heading"
    /\ UNCHANGED <<mainVars, calleeVars>>

\* lines 366-367
h_link_raise ==
    /\ pc = "h_link"
    /\ RaiseRuntimeError(Msg_NoLink)
    /\ UNCHANGED <<browserVars, tryVars, localVars, outVars, calleeVars>>

\* lines 375-440: the heading is there; the statement data is returned
h_return ==
    /\ pc = "h_heading"
    /\ hctax_statement' = ("account" :> "ACCOUNT")
    /\ pc' = "m_h_write"
    /\ UNCHANGED <<tp_result, files, browserVars, tryVars, localVars, log, exc, calleeVars>>

\* lines 378-379
h_heading_raise ==
    /\ pc = "h_heading"
    /\ RaiseRuntimeError(Msg_NoHeading)
    /\ UNCHANGED <<browserVars, tryVars, localVars, outVars, calleeVars>>

\* lines 677-680
main_h_except ==
    /\ pc = "m_h_except"
    /\ hctax_statement' = ("error" :> exc)
    /\ log' = log_error(log, "hctax statement error")
    /\ exc' = NoException
    /\ pc' = "m_h_write"
    /\ UNCHANGED <<tp_result, files, browserVars, tryVars, localVars, calleeVars>>

\* lines 682-685
main_h_write ==
    /\ pc = "m_h_write"
    /\ files' = files \cup {"out_statement"}
    /\ log' = log_event(log, "hctax statement scrape duration", "INFO")
    /\ pc' = "m_close"
    /\ UNCHANGED <<tp_result, hctax_statement, browserVars, tryVars, localVars, exc, calleeVars>>

\* lines 686-689: the inner finally; an exception in flight goes to the outer
\* handler
main_close ==
    /\ pc = "m_close"
    /\ context_closed' = TRUE
    /\ browser_closed' = TRUE
    /\ pc' = IF exc = NoException THEN "m_finally" ELSE "m_except"
    /\ UNCHANGED <<page_created, tryVars, localVars, outVars, log, exc, calleeVars>>

\* lines 689-691: logged and raised again
main_except ==
    /\ pc = "m_except"
    /\ log' = log_error(log, "Unhandled exception")
    /\ pc' = "m_finally"
    /\ UNCHANGED <<browserVars, tryVars, localVars, outVars, exc, calleeVars>>

\* lines 692-711: main ends, with the exception if one is in flight
main_finally ==
    /\ pc = "m_finally"
    /\ log' = log_event(log, "Run end", "INFO")
    /\ pc' = "m_done"
    /\ UNCHANGED <<browserVars, tryVars, localVars, outVars, exc, calleeVars>>

NextTable ==
    \/ ste_call
    \/ ste_skip
    \/ ste_header
    \/ ste_record
    \/ ste_field
    \/ ste_residual
    \/ ste_return

NextLines ==
    \/ kv_call
    \/ kv_no_container
    \/ kv_keyvalue
    \/ kv_row
    \/ kv_return

NextContainers ==
    \/ jc_call
    \/ jc_no_root
    \/ jc_heading_line
    \/ jc_keyvalue
    \/ jc_line
    \/ jc_return

NextNormalize ==
    \/ nte_call
    \/ nte_entry
    \/ ste_skip
    \/ ste_header
    \/ ste_record
    \/ ste_field
    \/ ste_residual
    \/ ste_return
    \/ nte_append
    \/ nte_return

NextMain ==
    \/ main_start
    \/ main_launch
    \/ main_launch_raise
    \/ main_goto
    \/ main_goto_raise
    \/ tp_call_fill
    \/ tfs_succeed
    \/ tfs_continue
    \/ tfs_return_false
    \/ tp_filled
    \/ tp_fill_fallback
    \/ tp_call_click
    \/ tcs_succeed
    \/ tcs_continue
    \/ tcs_return_false
    \/ tp_clicked
    \/ tp_found
    \/ tp_not_found
    \/ tp_return
    \/ tp_no_summary
    \/ tp_raise
    \/ main_tp_write
    \/ main_tp_finally
    \/ h_goto
    \/ h_raise
    \/ h_call_fill
    \/ h_filled
    \/ h_fill_raise
    \/ h_call_click
    \/ h_clicked
    \/ h_link
    \/ h_link_raise
    \/ h_return
    \/ h_heading_raise
    \/ main_h_except
    \/ main_h_write
    \/ main_close
    \/ main_except
    \/ main_finally

Next == NextTable \/ NextLines \/ NextContainers \/ NextNormalize \/ NextMain

Spec == Init /\ [][Next]_vars

\* structure_table_entry alone
SpecTable == Init /\ [][NextTable]_vars

\* extract_key_value_section alone
SpecLines == Init /\ [][NextLines]_vars

\* extract_jurisdiction_containers alone
SpecContainers == Init /\ [][NextContainers]_vars

\* normalize_table_entries and the calls it makes; the interpreter runs the
\* next statement of a sequential program whenever there is one
SpecNormalize == Init /\ [][NextNormalize]_vars /\ WF_vars(NextNormalize)

\* main and what it calls, down to the selector helpers
SpecMain == Init /\ [][NextMain]_vars
(***************************************************************************)
(* What the claims speak of, stated on the rows the loop has consumed and  *)
(* not through the operators above.                                        *)
(***************************************************************************)
InTable == pc \in {"ste_loop", "ste_done"}

Range(f) == {f[n] : n \in DOMAIN f}

\* the non-empty cells of a row, trimmed
NonEmptyCells(row) ==
    SelectSeq([n \in 1..Len(row.cells) |-> Strip(row.cells[n])], LAMBDA c : c # <<>>)

\* a header row with at least one non-empty cell
IsHeaderRow(row) == row.header /\ NonEmptyCells(row) # <<>>

\* a non-header row with at least one non-empty cell
IsDataRow(row) == ~row.header /\ NonEmptyCells(row) # <<>>

\* the cells of the header row that most recently precedes row j (<<>>: none does)
HeaderBefore(rs, j) ==
    LET H == {m \in 1..(j - 1) : IsHeaderRow(rs[m])}
    IN  IF H = {} THEN <<>>
        ELSE NonEmptyCells(rs[CHOOSE m \in H : \A o \in H : o <= m])

IsRecordRow(rs, j) ==
    /\ IsDataRow(rs[j])
    /\ Len(NonEmptyCells(rs[j])) = Len(HeaderBefore(rs, j))

\* row j reaches the 2-cell key/value path
IsFieldRow(rs, j) ==
    /\ IsDataRow(rs[j])
    /\ ~IsRecordRow(rs, j)
    /\ Len(NonEmptyCells(rs[j])) = 2

IsResidualRow(rs, j) ==
    /\ IsDataRow(rs[j])
    /\ ~IsRecordRow(rs, j)
    /\ Len(NonEmptyCells(rs[j])) # 2

\* the indices 1..n that satisfy Test, in order
Indices(n, Test(_)) == SelectSeq([m \in 1..n |-> m], Test)

RecordRows == Indices(i, LAMBDA j : IsRecordRow(entry.rows, j))

FieldRows == Indices(i, LAMBDA j : IsFieldRow(entry.rows, j))

ResidualRows == Indices(i, LAMBDA j : IsResidualRow(entry.rows, j))

\* the values that occurred with key k on the 2-cell path, in row order
ValuesOf(k) ==
    LET at == Indices(i, LAMBDA j : /\ IsFieldRow(entry.rows, j)
                                    /\ FieldKey(NonEmptyCells(entry.rows[j])[1]) = k)
    IN  [n \in 1..Len(at) |-> NonEmptyCells(entry.rows[at[n]])[2]]

KeysSeen == {FieldKey(NonEmptyCells(entry.rows[FieldRows[n]])[1]) : n \in 1..Len(FieldRows)}

RECURSIVE ValueCount(_)
ValueCount(fs) == IF fs = <<>> THEN 0 ELSE Len(Head(fs).v.items) + ValueCount(Tail(fs))

\* the entries of s without repeats, in order of first occurrence
Dedup(s) ==
    LET first == Indices(Len(s), LAMBDA n : \A m \in 1..(n - 1) : s[m] # s[n])
    IN  [n \in 1..Len(first) |-> s[first[n]]]

\* C1: on the 2-cell key/value path a key is never overwritten: fields holds
\* exactly the keys that occurred; a key that occurred once holds its single
\* value, a key that occurred N >= 2 times holds the list of all N values in
\* row order.
C1_KeyNeverOverwritten ==
    InTable =>
        /\ Range(Keys(fields)) = KeysSeen
        /\ \A k \in KeysSeen :
              /\ HasKey(fields, k)
              /\ Get(fields, k) = IF Len(ValuesOf(k)) = 1
                                  THEN Scalar(ValuesOf(k)[1])
                                  ELSE List(ValuesOf(k))

\* a key that held a list of two values has taken a third, and they are not
\* all equal
C1_Witness ==
    /\ InTable
    /\ \E n \in 1..Len(fields) :
          /\ fields[n].v.isList
          /\ Len(fields[n].v.items) = 3
          /\ fields[n].v.items[1] # fields[n].v.items[2]

\* C2: every non-header row whose count of non-empty cells equals that of the
\* most recent header row is appended to records (one record per such row,
\* holding cells of that row) and is added neither to fields nor to the
\* residual rows, which hold the other data rows only; the count may be 2.
C2_HeaderWidthRowIsRecord ==
    InTable =>
        /\ Len(records) = Len(RecordRows)
        /\ \A n \in 1..Len(RecordRows) :
              /\ n <= Len(records)
              /\ records[n] # <<>>
              /\ \A m \in 1..Len(records[n]) :
                    records[n][m].v \in Range(NonEmptyCells(entry.rows[RecordRows[n]]))
        /\ ValueCount(fields) = Len(FieldRows)
        /\ residual_rows = [n \in 1..Len(ResidualRows) |-> NonEmptyCells(entry.rows[ResidualRows[n]])]

\* a 2-cell row whose first cell looks like a label, under a 2-cell header,
\* has become a record; nothing is in fields
C2_Witness ==
    /\ InTable
    /\ i >= 2
    /\ IsRecordRow(entry.rows, i)
    /\ NonEmptyCells(entry.rows[i]) = <<S_acc, Strip(S_b)>>
    /\ Len(records) = 1
    /\ fields = <<>>
    /\ residual_rows = <<>>

\* C3: a header row with a non-empty cell replaces the headers (the last one
\* wins) and is itself in none of records, fields, rows; each record is keyed
\* by the header row that most recently precedes its row.
C3_LastHeaderWins ==
    InTable =>
        /\ headers = HeaderBefore(entry.rows, i + 1)
        /\ Len(records) + ValueCount(fields) + Len(residual_rows)
              = Cardinality({j \in 1..i : IsDataRow(entry.rows[j])})
        /\ Len(records) = Len(RecordRows)
        /\ \A n \in 1..Len(RecordRows) :
              n <= Len(records) =>
                 Range(Keys(records[n])) = Range(HeaderBefore(entry.rows, RecordRows[n]))

\* header H1, a record, header H2: the record is keyed by H1 and the headers
\* are H2
C3_Witness ==
    /\ InTable
    /\ i = 3
    /\ IsHeaderRow(entry.rows[1])
    /\ IsRecordRow(entry.rows, 2)
    /\ IsHeaderRow(entry.rows[3])
    /\ Len(records) = 1
    /\ Range(Keys(records[1])) = Range(NonEmptyCells(entry.rows[1]))
    /\ Range(Keys(records[1])) # Range(headers)
    /\ headers = NonEmptyCells(entry.rows[3])

\* C4 as claimed: in the returned table the keys of every record are the
\* entries of the table's headers, in that order.
C4_RecordKeysAreTableHeaders ==
    (pc = "ste_done" /\ "records" \in DOMAIN structured) =>
        /\ "headers" \in DOMAIN structured
        /\ \A n \in 1..Len(structured.records) :
              Keys(structured.records[n]) = structured.headers

\* C4 as amended: the keys of a record are the distinct entries of the header
\* row that most recently precedes the record's row, in order of first
\* occurrence, and a key holds the cell at the last position of that header
\* entry.
C4_RecordKeysArePrecedingHeader ==
    (pc = "ste_done" /\ "records" \in DOMAIN structured) =>
        /\ Len(structured.records) = Len(RecordRows)
        /\ \A n \in 1..Len(RecordRows) :
              LET H   == HeaderBefore(entry.rows, RecordRows[n])
                  c   == NonEmptyCells(entry.rows[RecordRows[n]])
                  rec == structured.records[n]
              IN  /\ Keys(rec) = Dedup(H)
                  /\ \A m \in 1..Len(rec) :
                        \E p \in 1..Len(H) :
                           /\ H[p] = rec[m].k
                           /\ \A q \in (p + 1)..Len(H) : H[q] # H[p]
                           /\ rec[m].v = c[p]

\* a returned table with a record under a header row with a repeated entry,
\* which another header row has followed
C4_Witness ==
    /\ pc = "ste_done"
    /\ "records" \in DOMAIN structured
    /\ Len(entry.rows) = 3
    /\ Len(structured.records) = 1
    /\ Len(structured.records[1]) = 1
    /\ Len(HeaderBefore(entry.rows, 2)) = 2
    /\ structured.headers # HeaderBefore(entry.rows, 2)

\* the text with one trailing ':' removed, when there is one
StripOneColon(s) == IF s # <<>> /\ s[Len(s)] = ":" THEN SubSeq(s, 1, Len(s) - 1) ELSE s

\* the text with all its trailing ':' removed
StripAllColons(s) ==
    LET n == CHOOSE m \in 0..Len(s) :
                /\ m = 0 \/ s[m] # ":"
                /\ \A o \in (m + 1)..Len(s) : s[o] = ":"
    IN  SubSeq(s, 1, n)

\* the row the loop consumed last went down the 2-cell path
LastIsFieldRow == pc = "ste_loop" /\ i >= 1 /\ IsFieldRow(entry.rows, i)

LastCells == NonEmptyCells(entry.rows[i])

\* C5 as claimed: on the 2-cell path the key is cells[0] with a single
\* trailing ':' removed, and the value is cells[1].
C5_KeyStripsOneColon ==
    LastIsFieldRow =>
        /\ HasKey(fields, StripOneColon(LastCells[1]))
        /\ Get(fields, StripOneColon(LastCells[1])).items[Len(Get(fields, StripOneColon(LastCells[1])).items)]
              = LastCells[2]

\* C5 as amended: on the 2-cell path the key is cells[0] with all its trailing
\* ':' removed, the rest of the text unchanged, and the value is cells[1]
\* unchanged.
C5_KeyStripsAllColons ==
    LastIsFieldRow =>
        /\ HasKey(fields, StripAllColons(LastCells[1]))
        /\ Get(fields, StripAllColons(LastCells[1])).items[Len(Get(fields, StripAllColons(LastCells[1])).items)]
              = LastCells[2]
        /\ ValueCount(fields) = Len(FieldRows)

\* a row whose first cell ends with two ':' went down the 2-cell path
C5_Witness ==
    /\ LastIsFieldRow
    /\ LastCells[1] = S_acc
    /\ HasKey(fields, <<"a">>)

\* the title is not blank
NonBlank(s) == \E n \in 1..Len(s) : s[n] \notin Whitespace

\* C6: the result holds each of title, headers, fields, records, rows exactly
\* when its value is non-empty (the title: given and non-blank), and then holds
\* that value; for an entry with no rows the result is {title} or {}.
C6_OnlyNonEmptyMembers ==
    pc = "ste_done" =>
        /\ "title" \in DOMAIN structured <=> (entry.title # NoTitle /\ NonBlank(entry.title))
        /\ "headers" \in DOMAIN structured <=> headers # <<>>
        /\ "fields" \in DOMAIN structured <=> fields # <<>>
        /\ "records" \in DOMAIN structured <=> records # <<>>
        /\ "rows" \in DOMAIN structured <=> residual_rows # <<>>
        /\ DOMAIN structured \subseteq {"title", "headers", "fields", "records", "rows"}
        /\ "title" \in DOMAIN structured => structured.title = Strip(entry.title)
        /\ "headers" \in DOMAIN structured => structured.headers = headers
        /\ "fields" \in DOMAIN structured => structured.fields = fields
        /\ "records" \in DOMAIN structured => structured.records = records
        /\ "rows" \in DOMAIN structured => structured.rows = residual_rows
        /\ entry.rows = <<>> => DOMAIN structured \subseteq {"title"}
        /\ "headers" \in DOMAIN structured <=> \E j \in 1..Len(entry.rows) : IsHeaderRow(entry.rows[j])
        /\ "fields" \in DOMAIN structured <=> \E j \in 1..Len(entry.rows) : IsFieldRow(entry.rows, j)
        /\ "records" \in DOMAIN structured <=> \E j \in 1..Len(entry.rows) : IsRecordRow(entry.rows, j)
        /\ "rows" \in DOMAIN structured <=> \E j \in 1..Len(entry.rows) : IsResidualRow(entry.rows, j)

\* an entry with a title and no rows has returned {title}
C6_Witness ==
    /\ pc = "ste_done"
    /\ entry.rows = <<>>
    /\ DOMAIN structured = {"title"}
    /\ structured.title = <<"b">>
(***************************************************************************)
(* The line splitter, stated on the lines its loop has consumed.           *)
(***************************************************************************)
InSplitter == pc \in {"kv_loop", "kv_done"}

\* the 1-based position of the first ':' of a line, 0 when it has none
FirstColon(line) ==
    LET at == {n \in 1..Len(line) : line[n] = ":"}
    IN  IF at = {} THEN 0 ELSE CHOOSE n \in at : \A m \in at : n <= m

\* the first ':' exists, is not the first and not the final character
SplitsAtColon(line) == FirstColon(line) >= 2 /\ FirstColon(line) < Len(line)

TextBefore(line) == Strip(SubSeq(line, 1, FirstColon(line) - 1))

TextAfter(line) == Strip(SubSeq(line, FirstColon(line) + 1, Len(line)))

\* the non-empty trimmed lines of the input, in input order
NonEmptyLines(text) ==
    LET at == Indices(Len(text), LAMBDA n : \E m \in 1..Len(text[n]) : text[n][m] \notin Whitespace)
    IN  [n \in 1..Len(at) |-> Strip(text[at[n]])]

Consumed == SubSeq(NonEmptyLines(innerText), 1, nread)

\* the strings a keyValues object holds, an inherited member not counted
RECURSIVE StringCount(_)
StringCount(kv) ==
    IF kv = <<>> THEN 0
    ELSE Cardinality({n \in 1..Len(Head(kv).v.items) : Head(kv).v.items[n] # InheritedMember})
         + StringCount(Tail(kv))

Example == <<L_A1, L_A2, L_nocolon, L_B>>

\* C7: a line is key/value exactly when its first ':' exists, is not at index
\* 0 and is not the final character; its key is the trimmed text before that
\* ':' and its value the trimmed text after it, later colons included; every
\* other line is appended to rows.  The example yields {A: ["1","2"],
\* B: "2:30"} and rows ["no colon here"].
C7_LineClassification ==
    InSplitter =>
        /\ rows = SelectSeq(Consumed, LAMBDA l : ~SplitsAtColon(l))
        /\ StringCount(keyValues) = Len(SelectSeq(Consumed, SplitsAtColon))
        /\ \A n \in 1..Len(Consumed) :
              SplitsAtColon(Consumed[n]) =>
                 /\ HasKey(keyValues, TextBefore(Consumed[n]))
                 /\ TextAfter(Consumed[n]) \in Range(Get(keyValues, TextBefore(Consumed[n])).items)
        /\ (nread >= 1 /\ SplitsAtColon(Consumed[nread])) =>
              LET held == Get(keyValues, TextBefore(Consumed[nread])).items
              IN  held[Len(held)] = TextAfter(Consumed[nread])
        /\ (rawLines = Example /\ nread = 4) =>
              /\ keyValues = << [k |-> <<"A">>, v |-> List(<< <<"1">>, <<"2">> >>)],
                                [k |-> <<"B">>, v |-> Scalar(<<"2", ":", "3", "0">>)] >>
              /\ rows = <<L_nocolon>>

\* the example has been split
C7_Witness ==
    /\ pc = "kv_loop"
    /\ rawLines = Example
    /\ nread = 4
    /\ Len(keyValues) = 2
    /\ Len(rows) = 1

\* the four kinds of line that are not key/value lines are all in rows
C7_WitnessResidual ==
    /\ pc = "kv_loop"
    /\ nread = 4
    /\ rows = <<L_nocolon, L_lead, L_colon, L_trail>>

\* C8: the lines member is the sequence of the non-empty trimmed input lines in
\* input order, however each was classified; key_values, rows and lines are
\* each left out exactly when empty, lines only when the input had no
\* non-empty line.
C8_LinesIsAuditCopy ==
    pc = "kv_done" =>
        /\ DOMAIN section \subseteq {"key_values", "rows", "lines"}
        /\ "lines" \in DOMAIN section <=> NonEmptyLines(innerText) # <<>>
        /\ "lines" \in DOMAIN section => section.lines = NonEmptyLines(innerText)
        /\ "key_values" \in DOMAIN section <=> keyValues # <<>>
        /\ "key_values" \in DOMAIN section => section.key_values = keyValues
        /\ "key_values" \in DOMAIN section <=> \E n \in 1..Len(Consumed) : SplitsAtColon(Consumed[n])
        /\ "rows" \in DOMAIN section <=> rows # <<>>
        /\ "rows" \in DOMAIN section => section.rows = rows
        /\ "rows" \in DOMAIN section <=> \E n \in 1..Len(Consumed) : ~SplitsAtColon(Consumed[n])

\* an input with a blank line, a padded key/value line and a residual line
\* has returned all three members
C8_Witness ==
    /\ pc = "kv_done"
    /\ Len(innerText) = 3
    /\ innerText[1] = S_blank
    /\ innerText[2] = L_valueOf
    /\ section.lines = <<Strip(L_valueOf), L_colon>>
    /\ DOMAIN section = {"key_values", "rows", "lines"}
(***************************************************************************)
(* The container assembler, stated on the lines its loop has consumed.     *)
(***************************************************************************)
InContainer == pc \in {"jc_loop", "jc_done"}

HeadingText == Strip(heading.innerText)

\* the consumed lines other than the heading text
Body == SelectSeq(Consumed, LAMBDA l : ~(heading.present /\ l = HeadingText))

\* C9: a body line equal to the heading text is dropped before it is
\* classified: lines holds the residual lines other than it, fields holds one
\* value per key/value line other than it, and it gives fields no key, also
\* when the heading text has a ':' that would make it a key/value line.
C9_HeadingLineDropped ==
    InContainer =>
        /\ lines = SelectSeq(Body, LAMBDA l : ~SplitsAtColon(l))
        /\ StringCount(keyValues) = Len(SelectSeq(Body, SplitsAtColon))
        /\ \A n \in 1..Len(keyValues) :
              \E m \in 1..Len(Body) :
                 SplitsAtColon(Body[m]) /\ TextBefore(Body[m]) = keyValues[n].k
        /\ heading.present => HeadingText \notin Range(lines)
        /\ pc = "jc_done" =>
              /\ "lines" \in DOMAIN result => result.lines = lines
              /\ "fields" \in DOMAIN result => result.fields = keyValues
              /\ "lines" \in DOMAIN result <=> lines # <<>>
              /\ "fields" \in DOMAIN result <=> keyValues # <<>>

\* a heading text with a ':' was a body line, with a residual line after it,
\* and the container has no fields
C9_Witness ==
    /\ pc = "jc_done"
    /\ heading = [present |-> TRUE, innerText |-> L_A1padded]
    /\ innerText = <<L_A1, L_nocolon>>
    /\ DOMAIN result = {"label", "lines"}
    /\ result.lines = <<L_nocolon>>

\* C10: a container block has a label only if a heading is present and
\* non-blank, and carries no empty label, fields, lines or tables.
C10_NoEmptyMember ==
    pc = "jc_done" =>
        /\ "label" \in DOMAIN result => (heading.present /\ NonBlank(heading.innerText))
        /\ \A m \in DOMAIN result : result[m] # <<>>
(***************************************************************************)
(* C11: structure_table_entry and normalize_table_entries are total: on    *)
(* every entry list of the declared shape (title absent or a string, rows  *)
(* of string cells of any width, empty, blank, with any header flags) no   *)
(* call ever ends in an exception, and normalize_table_entries returns.    *)
(***************************************************************************)
C11_Total == [](pc # "ste_error") /\ <>(pc = "nte_done")

\* a list holding the blank entry and the wide one has been worked through:
\* the first is dropped, the second is kept with its rows
C11_Witness ==
    /\ pc = "nte_done"
    /\ raw_tables = <<E_blank, E_wide>>
    /\ Len(tables) = 1
    /\ "rows" \in DOMAIN tables[1]
    /\ Len(tables[1].rows) = 2
(***************************************************************************)
(* C12: the fields and lines a container block is built with are the       *)
(* key_values and rows the line splitter of extract_key_value_section      *)
(* yields on the same lines less the heading line and the blank lines (the *)
(* test `keyValues[key]` of the one and `key in keyValues` of the other    *)
(* never part), and the block's lines are the residual lines alone, not    *)
(* the splitter's copy of every line.                                      *)
(***************************************************************************)
C12_ContainerAgreesWithSplitter ==
    InContainer =>
        LET onBody == BuildSection(SplitterKeyValues(Body), SplitterRows(Body), Body) IN
        /\ keyValues = SplitterKeyValues(Body)
        /\ lines = SplitterRows(Body)
        /\ pc = "jc_done" =>
              /\ "fields" \in DOMAIN result <=> "key_values" \in DOMAIN onBody
              /\ "fields" \in DOMAIN result => result.fields = onBody.key_values
              /\ "lines" \in DOMAIN result <=> "rows" \in DOMAIN onBody
              /\ "lines" \in DOMAIN result =>
                    /\ result.lines = onBody.rows
                    /\ \A n \in 1..Len(result.lines) : ~IsKeyValueLine(result.lines[n])
                    /\ "key_values" \in DOMAIN onBody => result.lines # onBody.lines

\* a container whose lines name an inherited member twice, around a residual
\* line: both loops start the list from the inherited member
C12_Witness ==
    /\ pc = "jc_done"
    /\ innerText = <<L_valueOf, L_nocolon, L_valueOf>>
    /\ result.fields = <<[k |-> Strip(<<"v", "a", "l", "u", "e", "O", "f", " ">>),
                          v |-> List(<<InheritedMember, <<"1">>, <<"1">>>>)]>>
    /\ result.lines = <<L_nocolon>>
(***************************************************************************)
(* C14: structure_table_entry never silently drops a data row: every       *)
(* non-header row with a non-empty cell goes to exactly one of records,    *)
(* fields and rows, so the records, the values held in fields and the      *)
(* residual rows together count the data rows, and every non-empty cell of *)
(* such a row can be read back from its bucket: a record holds every cell  *)
(* of its row, fields holds the second cell of a 2-cell row under the key  *)
(* made of its first, a residual row is the row's cells.                   *)
(***************************************************************************)
C14_NoDataRowDropped ==
    InTable =>
        /\ Len(records) + ValueCount(fields) + Len(residual_rows)
              = Cardinality({j \in 1..i : IsDataRow(entry.rows[j])})
        /\ Len(records) = Len(RecordRows)
        /\ ValueCount(fields) = Len(FieldRows)
        /\ Len(residual_rows) = Len(ResidualRows)
        /\ \A n \in 1..Len(RecordRows) :
              Range(NonEmptyCells(entry.rows[RecordRows[n]]))
                 \subseteq {records[n][m].v : m \in 1..Len(records[n])}
        /\ \A n \in 1..Len(FieldRows) :
              LET cells == NonEmptyCells(entry.rows[FieldRows[n]]) IN
              /\ HasKey(fields, FieldKey(cells[1]))
              /\ cells[2] \in Range(Get(fields, FieldKey(cells[1])).items)
        /\ \A n \in 1..Len(ResidualRows) :
              residual_rows[n] = NonEmptyCells(entry.rows[ResidualRows[n]])
(***************************************************************************)
(* main and the selector helpers, stated on the attempts made and on the   *)
(* events logged.                                                          *)
(***************************************************************************)
\* the page took the click or the value at this attempt
CandidateSucceeded(a) == a.outcome \in {"ok", "no_locator_ok"}

\* the selectors were tried in list order, none after one that succeeded;
\* True was returned at a success, False after the whole list had failed
TriedInOrderFirstSuccessWins ==
    /\ \A n \in 1..Len(attempts) : attempts[n].sel = n
    /\ \A n \in 1..(Len(attempts) - 1) : ~CandidateSucceeded(attempts[n])
    /\ ret = "True" => attempts # <<>> /\ CandidateSucceeded(attempts[Len(attempts)])
    /\ ret = "False" =>
          /\ Len(attempts) = MaxSelectors
          /\ \A n \in 1..Len(attempts) : ~CandidateSucceeded(attempts[n])
    /\ ret = "none" => \A n \in 1..Len(attempts) : ~CandidateSucceeded(attempts[n])

\* try_fill_selectors has returned False and its caller has acted on that
SearchInputNotFilled(at) == pc = at /\ helper = "fill" /\ ret = "False"

LastEvent == log[Len(log)]

Logged(level, message) == \E n \in 1..Len(log) : log[n] = [level |-> level, message |-> message]

\* C13 as claimed: the helpers try the selectors in list order, return True
\* at the first success and False only after every one failed, and either
\* caller of try_fill_selectors, when no selector took the account, logs an
\* ERROR and raises instead of going on.
C13_NoSuccessIsReported ==
    /\ TriedInOrderFirstSuccessWins
    /\ \A at \in {"tp_search", "h_search", "m_h_except"} :
          SearchInputNotFilled(at) =>
              /\ exc # NoException
              /\ LastEvent = [level |-> "ERROR", message |-> exc]

\* C13 amended: the helpers try the selectors in list order, return True at
\* the first success and False only after every one failed; when no selector
\* took the account, scrape_hctax_statement logs an ERROR and raises a
\* RuntimeError and never goes on to the search click, while
\* scrape_trueprodigy logs and raises nothing and goes on to the search
\* click, having filled the first visible text input or nothing.
C13_OnlyHctaxReportsNoInput ==
    /\ TriedInOrderFirstSuccessWins
    /\ ~SearchInputNotFilled("h_search")
    /\ SearchInputNotFilled("m_h_except") =>
          /\ exc = Msg_NoInput
          /\ LastEvent = [level |-> "ERROR", message |-> Msg_NoInput]
    /\ SearchInputNotFilled("tp_search") =>
          /\ exc = NoException
          /\ \A n \in 1..Len(log) : log[n].level # "ERROR"

\* scrape_trueprodigy is about to click the search button after every
\* selector failed, a disabled input first, and no text input was filled
C13_Witness ==
    /\ SearchInputNotFilled("tp_search")
    /\ Len(attempts) = MaxSelectors
    /\ attempts[1].outcome = "disabled"
    /\ ~filled

(***************************************************************************)
(* C15: once scrape_trueprodigy has returned and its JSON is written, an   *)
(* exception of scrape_hctax_statement is caught in main, logged as an     *)
(* ERROR and made the error object, and the statement JSON is written all  *)
(* the same; on every path through main after the page was created the     *)
(* context and the browser are closed, and 'Run end' is logged once, as    *)
(* the last event of the run.                                              *)
(***************************************************************************)
C15_MainCleansUp ==
    /\ pc = "m_done" =>
          /\ LastEvent = [level |-> "INFO", message |-> "Run end"]
          /\ page_created => context_closed /\ browser_closed
          /\ "out_tp" \in files =>
                /\ "out_statement" \in files
                /\ exc = NoException
                /\ hctax_statement # <<>>
                /\ "error" \in DOMAIN hctax_statement =>
                      Logged("ERROR", "hctax statement error")
                /\ \A message \in {Msg_NoInput, Msg_NoLink, Msg_NoHeading} :
                      Logged("ERROR", message) => hctax_statement = ("error" :> message)
    /\ pc # "m_done" => ~Logged("INFO", "Run end")
    /\ pc \in {"m_h_write", "m_close", "m_finally"} /\ "out_tp" \in files => exc = NoException

\* main has ended without an exception after scrape_hctax_statement raised
\* for want of the search input: both files are written, the error object
\* holds the message, the browser is closed
C15_Witness ==
    /\ pc = "m_done"
    /\ exc = NoException
    /\ files = {"out_tp", "out_statement"}
    /\ hctax_statement = ("error" :> Msg_NoInput)
    /\ context_closed /\ browser_closed
    /\ Len(log) = 6
====
